---- MODULE Spec2Model ----
(***************************************************************************)
(* A model of the connection tester (src/main.rs): main reads three lines  *)
(* (network id, prefix length, port specification), builds the port list   *)
(* and the CIDR block, spawns one check_target task per (address, port)    *)
(* pair into a JoinSet, and then prints one line per joined task.          *)
(*                                                                         *)
(* Strings are modelled by their token structure: a network id is its four *)
(* decimal groups, a prefix its two-digit number with an optional slash, a *)
(* port specification its comma-separated elements, each the sequence of   *)
(* numbers that split("-") yields.                                         *)
(***************************************************************************)
EXTENDS Integers, Sequences, FiniteSets, TLC

VARIABLES
    pc,            \* position of main
    stdin,         \* lines not yet read
    network_id,    \* line read at main.rs:62
    network_cidr,  \* line read at main.rs:68
    port_input,    \* line read at main.rs:79
    port_list,     \* Vec<u16> built at main.rs:84
    network,       \* IpCidr built at main.rs:86
    iter,          \* v4_cidr.iter(): Some(address it yields next) or Nothing
    ip,            \* loop variable of main.rs:89
    port_idx,      \* position of the inner loop of main.rs:90 in port_list
    yielded,       \* addresses the iterator has yielded, in order
    tasks,         \* the JoinSet's tasks in spawn order
    notified,      \* the JoinSet's queue of completed, not yet joined tasks
    completed,     \* history: the tasks in the order in which they completed
    terminal,      \* lines printed, in order
    exit_code,     \* Some(process exit code), Nothing while running
    call_stack     \* the frames of a call of error_handler or
                   \* print_to_terminal that is followed step by step

vars == <<pc, stdin, network_id, network_cidr, port_input, port_list, network,
          iter, ip, port_idx, yielded, tasks, notified, completed, terminal,
          exit_code, call_stack>>

\* an absent name, and Option<T> as a sequence of at most one element
None == "none"
Nothing == <<>>
Some(v) == <<v>>

----------------------------------------------------------------------------
(* Bounds of the model *)

\* prefixes of the inputs of Spec leave at most this many host bits
MaxHostBits == 1
\* prefixes of the inputs of SpecDerive leave at most this many host bits
MaxWideHostBits == 9
\* inputs of Spec give at most this many targets
MaxTargets == 3
\* inputs of FairSpec give at most this many targets
MaxLiveTargets == 2
\* inputs of SpecDerive give at most this many targets
MaxWideTargets == 16
\* calls of SpecHandler pass codes and levels up to this far from the
\* defined ones
MaxCodeMargin == 2

----------------------------------------------------------------------------
(* Program constants *)

AddrBits == 32
U16Max == 65535
OctetMax == 255

INFO == 0
WARN == 1
ERROR == 2
DEBUG == 3

TEST_ERROR == 3000
INVALID_VARIABLE == 3001
INVALID_INPUT == 3002
IMPOSSIBLE_CIDR == 3003
VALID_PORT_PARSE_FAILURE == 3004
SOCKET_ADDRESS_FAILED_TO_SET == 9996
INVALID_VERBOSITY_LEVEL == 9997
NO_VARIABLE_FOR_ERROR == 9998
NO_ERROR_CODE_GIVEN == 9999

\* a build that prints warnings and information only
VERBOSITY_LEVEL_Warn == WARN

VERBOSITY_LEVEL == ERROR

ConnectionStatus == {"Open", "Refused", "Timeout", "Unreachable"}

\* std::io::ErrorKind values a failed connect can carry (a sample of the enum)
ErrorKind == {"ConnectionRefused", "HostUnreachable", "NetworkUnreachable",
              "ConnectionReset", "PermissionDenied"}

----------------------------------------------------------------------------
(* Arithmetic helpers *)

RECURSIVE Pow2(_)
Pow2(n) == IF n = 0 THEN 1 ELSE 2 * Pow2(n - 1)

Ok(v) == [ok |-> TRUE, v |-> v]
Err == [ok |-> FALSE]

----------------------------------------------------------------------------
(* print_to_terminal and error_handler *)

Levels == {INFO, WARN, ERROR, DEBUG}

DefinedCodes == {TEST_ERROR, INVALID_VARIABLE, INVALID_INPUT, IMPOSSIBLE_CIDR,
                 VALID_PORT_PARSE_FAILURE, SOCKET_ADDRESS_FAILED_TO_SET,
                 INVALID_VERBOSITY_LEVEL, NO_VARIABLE_FOR_ERROR,
                 NO_ERROR_CODE_GIVEN}

\* the lines print_to_terminal(msg, level) writes, for a level of Levels:
\* nothing above VERBOSITY_LEVEL, stderr for ERROR, stdout otherwise
print_to_terminal(msg, level) ==
    IF level > VERBOSITY_LEVEL
    THEN <<>>
    ELSE <<[stream |-> IF level = ERROR THEN "stderr" ELSE "stdout",
            level |-> level, msg |-> msg]>>

\* error_handler(error_code, _, error_var_name): the lines it prints and the
\* code the process exits with
RECURSIVE error_handler(_, _)
error_handler(error_code, error_var_name) ==
    IF error_code = INVALID_VARIABLE /\ error_var_name = None
    THEN error_handler(NO_VARIABLE_FOR_ERROR, None)
    ELSE IF error_code \in DefinedCodes
    THEN [lines |-> print_to_terminal([kind |-> "error", code |-> error_code],
                                      ERROR),
          exit |-> Some(error_code)]
    ELSE error_handler(NO_ERROR_CODE_GIVEN, None)

----------------------------------------------------------------------------
(* Input lines and the three validation patterns of main.rs:57-59 *)

EofLine == [shape |-> "empty"]

\* ^([0-9]{1,3}\.){3}[0-9]{1,3}$
network_id_valid_pattern(line) ==
    /\ line.shape = "id"
    /\ Len(line.groups) = 4
    /\ \A i \in 1..4 : line.groups[i] \in 0..999

\* ^\/{0,1}[0-9]{2}$
network_cidr_valid_pattern(line) ==
    /\ line.shape = "cidr"
    /\ line.len \in 0..99

\* ^([0-9]{1,5}[-,])*[0-9]{1,5}$
port_list_valid_pattern(line) ==
    /\ line.shape = "ports"
    /\ Len(line.elems) >= 1
    /\ \A i \in 1..Len(line.elems) :
          /\ Len(line.elems[i]) >= 1
          /\ \A j \in 1..Len(line.elems[i]) : line.elems[i][j] \in 0..99999

\* verify_user_input(input, pattern, name), given whether the pattern matched:
\* the lines printed and the exit code, Nothing when it returns
verify_user_input(line, matched, name) ==
    IF matched
    THEN [lines |-> print_to_terminal([kind |-> "valid", name |-> name], DEBUG),
          exit |-> Nothing]
    ELSE IF line.shape \in {"exit", "quit"}
    THEN [lines |-> <<[stream |-> "stdout", level |-> INFO,
                       msg |-> [kind |-> "exiting"]]>>,
          exit |-> Some(0)]
    ELSE error_handler(INVALID_VARIABLE, name)

\* one arm of "match io::stdin().read_line(..)" of main.rs:62-82
ReadLine(line, matched, name) ==
    IF line.shape = "ioerr"
    THEN error_handler(INVALID_INPUT, None)
    ELSE verify_user_input(line, matched, name)

----------------------------------------------------------------------------
(* build_port_list *)

ParseU16(n) == IF n <= U16Max THEN Ok(n) ELSE Err

\* start..=end: a range that includes its end
Range_Inclusive(start, end) ==
    IF start > end THEN <<>>
    ELSE [i \in 1..(end - start + 1) |-> start + i - 1]

\* start..end of main.rs:176
RECURSIVE Range(_, _)
Range(start, end) ==
    IF start >= end THEN <<>> ELSE <<start>> \o Range(start + 1, end)

\* one element of the comma-separated list: main.rs:158-190
PortElement(range) ==
    IF Len(range) >= 2
    THEN LET start == ParseU16(range[1])
             end == ParseU16(range[2])
         IN  IF ~start.ok
             THEN [ok |-> FALSE, code |-> INVALID_VARIABLE,
                   name |-> "port_range_start"]
             ELSE IF ~end.ok
             THEN [ok |-> FALSE, code |-> INVALID_VARIABLE,
                   name |-> "port_range_end"]
             ELSE Ok(Range(start.v, end.v))
    ELSE LET parsed_port == ParseU16(range[1])
         IN  IF ~parsed_port.ok
             THEN [ok |-> FALSE, code |-> VALID_PORT_PARSE_FAILURE,
                   name |-> None]
             ELSE Ok(<<parsed_port.v>>)

RECURSIVE build_port_list_from(_, _)
build_port_list_from(v, return_vector) ==
    IF v = <<>>
    THEN Ok(return_vector)
    ELSE LET e == PortElement(Head(v))
         IN  IF ~e.ok THEN e
             ELSE build_port_list_from(Tail(v), return_vector \o e.v)

build_port_list(line) == build_port_list_from(line.elems, <<>>)

----------------------------------------------------------------------------
(* build_valid_network_configuration and the cidr crate's parse *)

\* main.rs:198-202: the id, the separators between id and length, the length
NetworkString(id_line, cidr_line) ==
    LET own == IF cidr_line.slash THEN 1 ELSE 0
    IN  IF cidr_line.slash
        THEN [groups |-> id_line.groups, slashes |-> own,
              len |-> cidr_line.len]
        ELSE [groups |-> id_line.groups, slashes |-> own + 1,
              len |-> cidr_line.len]

\* the number of host bits of a block of length len that lie in octet i
HostBitsIn(i, len) ==
    LET h == 8 * i - len
    IN  IF h <= 0 THEN 0 ELSE IF h >= 8 THEN 8 ELSE h

\* the host part of addr is all zeros: addr is the block's first address
HostPartZero(addr, len) ==
    \A i \in 1..4 : addr[i] % Pow2(HostBitsIn(i, len)) = 0

\* the host part of addr is all ones: addr is the block's last address
HostPartOnes(addr, len) ==
    \A i \in 1..4 : addr[i] % Pow2(HostBitsIn(i, len))
                        = Pow2(HostBitsIn(i, len)) - 1

\* addr + 1 on 32 bits, octet by octet from the last, wrapping to 0.0.0.0
RECURSIVE IncFrom(_, _)
IncFrom(addr, i) ==
    IF i = 0 THEN addr
    ELSE IF addr[i] = OctetMax
    THEN IncFrom([addr EXCEPT ![i] = 0], i - 1)
    ELSE [addr EXCEPT ![i] = @ + 1]

Inc(addr) == IncFrom(addr, 4)

\* the number of addresses of a block of length len
HostSize(len) == Pow2(AddrBits - len)

\* IpCidr::from_str: a dotted quad, one slash, a length of at most 32 bits and
\* no host bit set
IpCidrFromStr(s) ==
    IF \/ s.slashes # 1
       \/ \E i \in 1..4 : s.groups[i] > OctetMax
       \/ s.len > AddrBits
       \/ ~HostPartZero(s.groups, s.len)
    THEN Err
    ELSE Ok([first |-> s.groups, len |-> s.len])

build_valid_network_configuration(id_line, cidr_line) ==
    IpCidrFromStr(NetworkString(id_line, cidr_line))

\* Ipv4Cidr::iter(): the iterator starts at the first address of the block
CidrIter(cidr) == Some(cidr.first)

\* an iteration over the hosts only: it stops before the broadcast address
InetNext_HostsOnly(addr, cidr) ==
    IF HostPartOnes(addr, cidr.len) \/ HostPartOnes(Inc(addr), cidr.len)
    THEN Nothing
    ELSE Some(Inc(addr))

\* the address after addr within the block, Nothing when the host part wraps
InetNext(addr, cidr) ==
    IF HostPartOnes(addr, cidr.len) THEN Nothing ELSE Some(Inc(addr))

----------------------------------------------------------------------------
(* Target construction: main.rs:91-101 *)

\* format!("{}:{}", ip.to_string().trim().split("/").nth(0).unwrap(), port)
TargetString(addr, port) == [groups |-> addr, port |-> port]

\* a parse that fails for one port the port list admits, 80
SocketAddrFromStr_RejectsPort80(s) ==
    IF (\E i \in 1..4 : s.groups[i] > OctetMax) \/ s.port = 80
    THEN Err
    ELSE Ok([addr |-> s.groups, port |-> s.port])

\* SocketAddr::from_str
SocketAddrFromStr(s) ==
    IF (\E i \in 1..4 : s.groups[i] > OctetMax) \/ s.port > U16Max
    THEN Err
    ELSE Ok([addr |-> s.groups, port |-> s.port])

----------------------------------------------------------------------------
(* check_target *)

Elapsed == "Elapsed"
Connected == "Connected"

\* what timeout(Duration::from_secs(3), connect_future).await can resolve to
AttemptResults == {Elapsed, Connected} \cup ErrorKind

\* the match without the NetworkUnreachable alternative
StatusOf_HostOnly(result) ==
    IF result = Elapsed THEN "Timeout"
    ELSE IF result = Connected THEN "Open"
    ELSE IF result = "ConnectionRefused" THEN "Refused"
    ELSE IF result = "HostUnreachable" THEN "Unreachable"
    ELSE "Timeout"

\* the match of main.rs:224-236
StatusOf(result) ==
    IF result = Elapsed THEN "Timeout"
    ELSE IF result = Connected THEN "Open"
    ELSE IF result = "ConnectionRefused" THEN "Refused"
    ELSE IF result \in {"HostUnreachable", "NetworkUnreachable"}
    THEN "Unreachable"
    ELSE "Timeout"

check_target(target, result) == [ip |-> target, status |-> StatusOf(result)]

----------------------------------------------------------------------------
(* The inputs: what stdin holds when the program starts *)

IdLine(groups) == [shape |-> "id", groups |-> groups]
CidrLine(slash, len) == [shape |-> "cidr", slash |-> slash, len |-> len]
PortsLine(elems) == [shape |-> "ports", elems |-> elems]
Unset == [shape |-> "unset"]

\* lines that match no pattern, and a failed read
BadLines == {[shape |-> "exit"], [shape |-> "quit"], [shape |-> "junk"],
             [shape |-> "ioerr"]}

\* 10.0.0.0, 10.0.0.1, the last address, and a group above 255
NetworkIds == {<<10, 0, 0, 0>>, <<10, 0, 0, 1>>, <<255, 255, 255, 255>>,
               <<10, 0, 0, 300>>}

WideNetworkIds ==
    NetworkIds \cup {<<10, 0, 0, 2>>, <<255, 255, 255, 252>>,
                     <<255, 255, 255, 248>>, <<192, 168, 1, 4>>,
                     <<10, 0, 255, 254>>, <<0, 0, 0, 0>>}

CidrLines(hostBits) ==
    {CidrLine(slash, len) : slash \in BOOLEAN,
                            len \in (AddrBits - hostBits)..(AddrBits + 1)}

\* "80", "22,80", "80,80", "5-3", "20-23", "70000"
PortInputs == {<< <<80>> >>, << <<22>>, <<80>> >>, << <<80>>, <<80>> >>,
               << <<5, 3>> >>, << <<20, 23>> >>, << <<70000>> >>}

\* and "443,8-10,7", "1-2-3", "65534-65535,0", "7-7,9", "1-70000", "70000-2"
WidePortInputs ==
    PortInputs \cup {<< <<443>>, <<8, 10>>, <<7>> >>, << <<1, 2, 3>> >>,
                     << <<65534, 65535>>, <<0>> >>, << <<7, 7>>, <<9>> >>,
                     << <<1, 70000>> >>, << <<70000, 2>> >>}

\* the number of targets main spawns for three valid lines
TargetCount(id_line, cidr_line, ports_line) ==
    LET ports == build_port_list(ports_line)
        net == build_valid_network_configuration(id_line, cidr_line)
    IN  IF ports.ok /\ net.ok
        THEN HostSize(net.v.len) * Len(ports.v)
        ELSE 0

\* three well-formed lines giving at most maxTargets targets, and the scripts
\* whose first, second or third line is a bad one
Scripts(ids, cidrs, portInputs, maxTargets) ==
    LET id0 == IdLine(<<10, 0, 0, 0>>)
        cidr0 == CidrLine(FALSE, AddrBits)
    IN  {sc \in {<<IdLine(g), c, PortsLine(e)>> :
                    g \in ids, c \in cidrs, e \in portInputs} :
                TargetCount(sc[1], sc[2], sc[3]) <= maxTargets}
        \cup {<<b>> : b \in BadLines}
        \cup {<<id0, b>> : b \in BadLines}
        \cup {<<id0, cidr0, b>> : b \in BadLines}

----------------------------------------------------------------------------
(* main *)

InitWith(scripts) ==
    /\ pc = "read_id"
    /\ stdin \in scripts
    /\ network_id = Unset
    /\ network_cidr = Unset
    /\ port_input = Unset
    /\ port_list = <<>>
    /\ network = Nothing
    /\ iter = Nothing
    /\ ip = Nothing
    /\ port_idx = 0
    /\ yielded = <<>>
    /\ tasks = <<>>
    /\ notified = <<>>
    /\ completed = <<>>
    /\ terminal = <<>>
    /\ exit_code = Nothing
    /\ call_stack = <<>>

Init == InitWith(Scripts(NetworkIds, CidrLines(MaxHostBits), PortInputs,
                         MaxTargets))

\* read_line: the next line of stdin, the empty line at end of input
NextLine == IF stdin = <<>> THEN EofLine ELSE Head(stdin)
RestOfStdin == IF stdin = <<>> THEN <<>> ELSE Tail(stdin)

\* process::exit after the lines of r
Exit(r) ==
    /\ pc' = "exited"
    /\ exit_code' = r.exit
    /\ terminal' = terminal \o r.lines

\* r returned: main goes on at next
Continue(r, next) ==
    /\ pc' = next
    /\ terminal' = terminal \o r.lines
    /\ UNCHANGED exit_code

\* main.rs:61-65
ReadNetworkId ==
    /\ pc = "read_id"
    /\ LET r == ReadLine(NextLine, network_id_valid_pattern(NextLine),
                         "network id")
       IN  IF r.exit = Nothing THEN Continue(r, "read_cidr") ELSE Exit(r)
    /\ network_id' = NextLine
    /\ stdin' = RestOfStdin
    /\ UNCHANGED <<network_cidr, port_input, port_list, network, iter, ip,
                   port_idx, yielded, tasks, notified, completed, call_stack>>

\* main.rs:67-75
ReadNetworkCidr ==
    /\ pc = "read_cidr"
    /\ LET r == ReadLine(NextLine, network_cidr_valid_pattern(NextLine),
                         "network cir")
       IN  IF r.exit = Nothing THEN Continue(r, "read_ports") ELSE Exit(r)
    /\ network_cidr' = NextLine
    /\ stdin' = RestOfStdin
    /\ UNCHANGED <<network_id, port_input, port_list, network, iter, ip,
                   port_idx, yielded, tasks, notified, completed, call_stack>>

\* main.rs:77-82
ReadPortInput ==
    /\ pc = "read_ports"
    /\ LET r == ReadLine(NextLine, port_list_valid_pattern(NextLine),
                         "port input")
       IN  IF r.exit = Nothing THEN Continue(r, "build_ports") ELSE Exit(r)
    /\ port_input' = NextLine
    /\ stdin' = RestOfStdin
    /\ UNCHANGED <<network_id, network_cidr, port_list, network, iter, ip,
                   port_idx, yielded, tasks, notified, completed, call_stack>>

\* main.rs:84: port_input is moved into build_port_list
BuildPortList ==
    /\ pc = "build_ports"
    /\ LET r == build_port_list(port_input)
       IN  IF r.ok
           THEN /\ port_list' = r.v
                /\ pc' = "build_net"
                /\ UNCHANGED <<terminal, exit_code>>
           ELSE /\ Exit(error_handler(r.code, r.name))
                /\ UNCHANGED port_list
    /\ port_input' = Unset
    /\ UNCHANGED <<stdin, network_id, network_cidr, network, iter, ip,
                   port_idx, yielded, tasks, notified, completed, call_stack>>

\* main.rs:86-89: the two strings are moved into
\* build_valid_network_configuration; the block's iterator is created
BuildNetwork ==
    /\ pc = "build_net"
    /\ LET r == build_valid_network_configuration(network_id, network_cidr)
       IN  IF r.ok
           THEN /\ network' = Some(r.v)
                /\ iter' = CidrIter(r.v)
                /\ pc' = "for_ip"
                /\ UNCHANGED <<terminal, exit_code>>
           ELSE /\ Exit(error_handler(IMPOSSIBLE_CIDR, None))
                /\ UNCHANGED <<network, iter>>
    /\ network_id' = Unset
    /\ network_cidr' = Unset
    /\ UNCHANGED <<stdin, port_input, port_list, ip, port_idx, yielded, tasks,
                   notified, completed, call_stack>>

\* main.rs:89: the iterator yields the next address and the inner loop starts
IterNext ==
    /\ pc = "for_ip"
    /\ iter # Nothing
    /\ ip' = iter
    /\ yielded' = Append(yielded, iter[1])
    /\ iter' = InetNext(iter[1], network[1])
    /\ port_idx' = 1
    /\ pc' = IF port_list = <<>> THEN "for_ip" ELSE "for_port"
    /\ UNCHANGED <<stdin, network_id, network_cidr, port_input, port_list,
                   network, tasks, notified, completed, terminal, exit_code,
                   call_stack>>

\* a task spawned on the runtime but not added to the JoinSet
NewTask_Detached(target) ==
    [target |-> target, state |-> "joined", result |-> None,
     output |-> Nothing]

\* a task as set.spawn creates it
NewTask(target) ==
    [target |-> target, state |-> "pending", result |-> None,
     output |-> Nothing]

\* a spawn that skips a target already submitted
Spawned_Deduplicated(target) ==
    IF \E i \in DOMAIN tasks : tasks[i].target = target
    THEN tasks
    ELSE Append(tasks, NewTask(target))

\* main.rs:104: set.spawn adds a task for target to the JoinSet
Spawned(target) == Append(tasks, NewTask(target))

\* main.rs:90-105: one iteration of the inner loop
SpawnTarget ==
    /\ pc = "for_port"
    /\ LET target == SocketAddrFromStr(TargetString(ip[1],
                                                    port_list[port_idx]))
       IN  IF target.ok
           THEN /\ tasks' = Spawned(target.v)
                /\ terminal' = terminal \o
                      print_to_terminal([kind |-> "targeting",
                                         ip |-> target.v], DEBUG)
                /\ port_idx' = port_idx + 1
                /\ pc' = IF port_idx = Len(port_list)
                         THEN "for_ip" ELSE "for_port"
                /\ UNCHANGED exit_code
           ELSE /\ Exit(error_handler(SOCKET_ADDRESS_FAILED_TO_SET, None))
                /\ UNCHANGED <<tasks, port_idx>>
    /\ UNCHANGED <<stdin, network_id, network_cidr, port_input, port_list,
                   network, iter, ip, yielded, notified, completed,
                   call_stack>>

\* a collection that starts once the first address has been handled, as if
\* the collection loop stood inside the loop over the addresses
LoopEnded_AfterFirstAddress == yielded # <<>>

\* main.rs:89: the iterator over the block yields None and the loop ends
LoopEnded == iter = Nothing

\* main.rs:109: the outer loop has ended
WaitForResults ==
    /\ pc = "for_ip"
    /\ LoopEnded
    /\ terminal' = terminal \o
          print_to_terminal([kind |-> "waiting"], INFO)
    /\ pc' = "collect"
    /\ UNCHANGED <<stdin, network_id, network_cidr, port_input, port_list,
                   network, iter, ip, port_idx, yielded, tasks, notified,
                   completed, exit_code, call_stack>>

----------------------------------------------------------------------------
(* The spawned tasks: check_target on the runtime's workers *)

\* an await that can be resolved again after it has produced its value
Pending_OrFinished(t) ==
    /\ exit_code = Nothing
    /\ t \in DOMAIN tasks
    /\ tasks[t].state \in {"pending", "finished"}

\* the process is running and task t is awaiting timeout(.., connect_future)
Pending(t) ==
    /\ exit_code = Nothing
    /\ t \in DOMAIN tasks
    /\ tasks[t].state = "pending"

\* main.rs:222-237: the await resolves to result, the task returns its ScanResult
\* and the JoinSet is notified
Returns(t, result) ==
    /\ tasks' = [tasks EXCEPT ![t] =
                    [@ EXCEPT !.state = "finished",
                              !.result = result,
                              !.output = Some(check_target(tasks[t].target,
                                                           result))]]
    /\ notified' = Append(notified, t)
    /\ completed' = Append(completed, t)
    /\ UNCHANGED <<pc, stdin, network_id, network_cidr, port_input, port_list,
                   network, iter, ip, port_idx, yielded, terminal, exit_code,
                   call_stack>>

\* TcpStream::connect resolves to a stream within the deadline
ConnectSucceeds(t) == Pending(t) /\ Returns(t, Connected)

\* TcpStream::connect resolves to an error within the deadline
ConnectFails(t, e) == Pending(t) /\ Returns(t, e)

\* the 3 second deadline elapses first
DeadlineElapses(t) == Pending(t) /\ Returns(t, Elapsed)

\* the task ends abnormally: its JoinHandle will yield a JoinError
TaskPanics(t) ==
    /\ Pending(t)
    /\ tasks' = [tasks EXCEPT ![t].state = "panicked"]
    /\ notified' = Append(notified, t)
    /\ completed' = Append(completed, t)
    /\ UNCHANGED <<pc, stdin, network_id, network_cidr, port_input, port_list,
                   network, iter, ip, port_idx, yielded, terminal, exit_code,
                   call_stack>>

----------------------------------------------------------------------------
(* The collection loop: main.rs:111-139 *)

\* a join in submission order: the earliest submitted task that has completed
JoinNextTask_InSubmissionOrder ==
    CHOOSE t \in DOMAIN tasks :
        /\ tasks[t].state \in {"finished", "panicked"}
        /\ \A u \in DOMAIN tasks :
              tasks[u].state \in {"finished", "panicked"} => t <= u

\* JoinSet::join_next: the task that completed first among those not yet joined
JoinNextTask == Head(notified)

\* try_join_next in place of join_next: None when no completed task is waiting
SetIsEmpty_NoneReady == notified = <<>>

\* JoinSet::join_next yields None: no task is left in the set
SetIsEmpty == \A t \in DOMAIN tasks : tasks[t].state = "joined"

\* an Err arm that leaves the loop
AfterJoin_BreakOnError(state) ==
    IF state = "panicked" THEN "done" ELSE "collect"

\* where main goes on after either arm of the match of main.rs:112-136: both
\* fall through to the next iteration of the loop
AfterJoin(state) == "collect"

\* the arm of main.rs:113-129 for a ScanResult of task t
ResultLines(t, scan_result) ==
    IF scan_result.status = "Open"
    THEN print_to_terminal([kind |-> "result", task |-> t,
                            ip |-> scan_result.ip, label |-> "Open"], INFO)
    ELSE IF scan_result.status = "Refused"
    THEN print_to_terminal([kind |-> "result", task |-> t,
                            ip |-> scan_result.ip, label |-> "Refused"], WARN)
    ELSE print_to_terminal([kind |-> "result", task |-> t,
                            ip |-> scan_result.ip, label |-> "Timeout"], ERROR)

\* the arm of main.rs:130-135 for the JoinError of task t
FailureLines(t) == print_to_terminal([kind |-> "failure", task |-> t], ERROR)

\* a collection loop that submits a target again when its probe timed out
Joined_RetryOnTimeout(t) ==
    LET taken == [tasks EXCEPT ![t] =
                     [@ EXCEPT !.state = "joined", !.result = None,
                               !.output = Nothing]]
    IN  IF tasks[t].state = "finished" /\ tasks[t].output[1].status = "Timeout"
        THEN Append(taken, NewTask(tasks[t].target))
        ELSE taken

\* main.rs:111-112: join_next removes task t from the set and hands its value
\* to main; nothing is spawned in the loop
Joined(t) ==
    [tasks EXCEPT ![t] =
        [@ EXCEPT !.state = "joined", !.result = None, !.output = Nothing]]

\* one iteration of "while let Some(res) = set.join_next().await"
JoinNext ==
    /\ pc = "collect"
    /\ notified # <<>>
    /\ LET t == JoinNextTask
       IN  /\ terminal' = terminal \o
                 (IF tasks[t].state = "finished"
                  THEN ResultLines(t, tasks[t].output[1])
                  ELSE FailureLines(t))
           /\ tasks' = Joined(t)
           /\ notified' = SelectSeq(notified, LAMBDA u : u # t)
           /\ pc' = AfterJoin(tasks[t].state)
    /\ UNCHANGED <<completed, stdin, network_id, network_cidr, port_input,
                   port_list, network, iter, ip, port_idx, yielded,
                   exit_code, call_stack>>

\* join_next yields None once the set is empty: main.rs:139 and main returns
ScanCompleted ==
    /\ pc = "collect"
    /\ SetIsEmpty
    /\ terminal' = terminal \o print_to_terminal([kind |-> "completed"], INFO)
    /\ pc' = "done"
    /\ exit_code' = Some(0)
    /\ UNCHANGED <<stdin, network_id, network_cidr, port_input, port_list,
                   network, iter, ip, port_idx, yielded, tasks, notified,
                   completed, call_stack>>

----------------------------------------------------------------------------
(* Specifications *)

Main ==
    \/ ReadNetworkId
    \/ ReadNetworkCidr
    \/ ReadPortInput
    \/ BuildPortList
    \/ BuildNetwork
    \/ IterNext
    \/ SpawnTarget
    \/ WaitForResults

Task(t) ==
    \/ ConnectSucceeds(t)
    \/ \E e \in ErrorKind : ConnectFails(t, e)
    \/ DeadlineElapses(t)
    \/ TaskPanics(t)

Next ==
    \/ Main
    \/ \E t \in 1..Len(tasks) : Task(t)
    \/ JoinNext
    \/ ScanCompleted

\* the whole program
Spec == Init /\ [][Next]_vars

\* the derivation of the targets: main up to the end of the spawn loop, which
\* no step of a task changes, on a wider set of inputs
InitDerive == InitWith(Scripts(WideNetworkIds, CidrLines(MaxWideHostBits),
                               WidePortInputs, MaxWideTargets))

SpecDerive == InitDerive /\ [][Main]_vars

\* the scheduling the runtime gives: the program does not stop while a step is
\* possible, be it main's, the resolution of a pending task's await (at the
\* latest when its deadline elapses) or the return of join_next
Fairness == WF_vars(Next)

\* the whole program under that scheduling
InitLive == InitWith(Scripts(NetworkIds, CidrLines(MaxHostBits), PortInputs,
                             MaxLiveTargets))

FairSpec == InitLive /\ [][Next]_vars /\ Fairness

----------------------------------------------------------------------------
(* error_handler and print_to_terminal call by call: main.rs:240-330 *)

\* a frame of the call stack: the function, its arguments (the code is that
\* of error_handler, or the one a message of print_to_terminal reports) and
\* where the call stands
HandlerCall(error_code, error_var_name) ==
    [fn |-> "error_handler", code |-> Some(error_code),
     name |-> error_var_name, level |-> Nothing]

PrintCall(code, level) ==
    [fn |-> "print_to_terminal", code |-> code, name |-> None,
     level |-> Some(level)]

\* the message print_to_terminal is called with
MessageOf(frame) ==
    IF frame.code = Nothing
    THEN [kind |-> "text"]
    ELSE [kind |-> "error", code |-> frame.code[1]]

\* a match whose default arm prints and exits like the other arms
MatchArm_NoDefaultArm(error_code, error_var_name) ==
    IF error_code = INVALID_VARIABLE /\ error_var_name = None
    THEN HandlerCall(NO_VARIABLE_FOR_ERROR, None)
    ELSE PrintCall(Some(error_code), ERROR)

\* main.rs:241-305: the call the arm of error_code makes
MatchArm(error_code, error_var_name) ==
    IF error_code = INVALID_VARIABLE /\ error_var_name = None
    THEN HandlerCall(NO_VARIABLE_FOR_ERROR, None)
    ELSE IF error_code \in DefinedCodes
    THEN PrintCall(Some(error_code), ERROR)
    ELSE HandlerCall(NO_ERROR_CODE_GIVEN, None)

\* the codes, names and levels the calls are made with
ErrorCodeInputs ==
    ((TEST_ERROR - MaxCodeMargin)..(VALID_PORT_PARSE_FAILURE + MaxCodeMargin))
    \cup ((SOCKET_ADDRESS_FAILED_TO_SET - MaxCodeMargin)
           ..(NO_ERROR_CODE_GIVEN + MaxCodeMargin))
    \cup ((0 - MaxCodeMargin)..MaxCodeMargin)

VarNameInputs == {None, "network id", "port_range_start"}

LevelInputs == 0..(DEBUG + MaxCodeMargin)

CallInputs ==
    {HandlerCall(c, n) : c \in ErrorCodeInputs, n \in VarNameInputs}
    \cup {PrintCall(Nothing, l) : l \in LevelInputs}

Top == call_stack[Len(call_stack)]

\* the frames below the top one
Callers == SubSeq(call_stack, 1, Len(call_stack) - 1)

UnchangedProgram ==
    UNCHANGED <<stdin, network_id, network_cidr, port_input, port_list,
                network, iter, ip, port_idx, yielded, tasks, notified,
                completed>>

\* main.rs:241: error_handler matches its code and calls what the arm calls
HandlerMatch ==
    /\ pc = "call"
    /\ Top.fn = "error_handler"
    /\ call_stack' = Append(call_stack, MatchArm(Top.code[1], Top.name))
    /\ UNCHANGED <<pc, terminal, exit_code>>
    /\ UnchangedProgram

\* main.rs:317: print_to_terminal is called with a level that is none of the
\* four
PrintInvalidLevel ==
    /\ pc = "call"
    /\ Top.fn = "print_to_terminal"
    /\ Top.level[1] \notin Levels
    /\ call_stack' = Append(call_stack,
                            HandlerCall(INVALID_VERBOSITY_LEVEL, None))
    /\ UNCHANGED <<pc, terminal, exit_code>>
    /\ UnchangedProgram

\* main.rs:320-329: print_to_terminal prints, or not, and returns to its
\* caller
PrintReturns ==
    /\ pc = "call"
    /\ Top.fn = "print_to_terminal"
    /\ Top.level[1] \in Levels
    /\ terminal' = terminal \o print_to_terminal(MessageOf(Top), Top.level[1])
    /\ call_stack' = Callers
    /\ pc' = IF Callers = <<>> THEN "returned" ELSE "after_print"
    /\ UNCHANGED exit_code
    /\ UnchangedProgram

\* main.rs:306: back in error_handler after the print of its arm
HandlerExit ==
    /\ pc = "after_print"
    /\ pc' = "exited"
    /\ exit_code' = Top.code
    /\ UNCHANGED <<call_stack, terminal>>
    /\ UnchangedProgram

NextHandler ==
    \/ HandlerMatch
    \/ PrintInvalidLevel
    \/ PrintReturns
    \/ HandlerExit

\* one call of error_handler or print_to_terminal with any of the inputs
InitHandler ==
    /\ pc = "call"
    /\ call_stack \in {<<f>> : f \in CallInputs}
    /\ stdin = <<>>
    /\ network_id = Unset
    /\ network_cidr = Unset
    /\ port_input = Unset
    /\ port_list = <<>>
    /\ network = Nothing
    /\ iter = Nothing
    /\ ip = Nothing
    /\ port_idx = 0
    /\ yielded = <<>>
    /\ tasks = <<>>
    /\ notified = <<>>
    /\ completed = <<>>
    /\ terminal = <<>>
    /\ exit_code = Nothing

\* the call runs on: it is straight-line code on one thread
SpecHandler == InitHandler /\ [][NextHandler]_vars /\ WF_vars(NextHandler)

----------------------------------------------------------------------------
(* What the claims speak of *)

\* the completion events printed so far: one line per joined task
Events ==
    SelectSeq(terminal, LAMBDA l : l.msg.kind \in {"result", "failure"})

\* the tasks the events were printed for, in the order of the events
EventTasks == [i \in 1..Len(Events) |-> Events[i].msg.task]

Reported(t) == \E i \in 1..Len(Events) : Events[i].msg.task = t

\* "Scan has completed" has been printed
CompletionSignalled ==
    \E i \in 1..Len(terminal) : terminal[i].msg.kind = "completed"

\* the targets submitted so far, in submission order
Targets == [i \in 1..Len(tasks) |-> tasks[i].target]

InFlight(t) == tasks[t].state = "pending"

----------------------------------------------------------------------------
(* C1 *)

\* C1: every completion event is for a submitted target, no submitted target
\* has two events, a result event carries the target it was submitted with, and
\* once completion is signalled there is exactly one event per submitted target.
C1_EventsMatchSubmissions ==
    /\ \A i \in 1..Len(Events) : Events[i].msg.task \in 1..Len(tasks)
    /\ \A i, j \in 1..Len(Events) :
          Events[i].msg.task = Events[j].msg.task => i = j
    /\ \A i \in 1..Len(Events) :
          Events[i].msg.kind = "result"
              => Events[i].msg.ip = tasks[Events[i].msg.task].target
    /\ CompletionSignalled
          => /\ Len(Events) = Len(tasks)
             /\ \A t \in 1..Len(tasks) : Reported(t)

\* a run of three targets has completed with a task failure and classified
\* results, reported out of submission order
C1_Witness ==
    /\ CompletionSignalled
    /\ Len(tasks) = 3
    /\ \E i, j \in 1..Len(Events) :
          /\ i < j
          /\ Events[i].msg.task > Events[j].msg.task
          /\ Events[i].msg.kind = "failure"
          /\ Events[j].msg.kind = "result"

----------------------------------------------------------------------------
(* C2 *)

\* C2: under fair scheduling every submitted target is eventually reported:
\* a task that has been spawned leads to a completion event for that task.
C2_EverySubmittedTargetIsReported ==
    \A t \in 1..MaxLiveTargets : (Len(tasks) >= t) ~> Reported(t)

\* two targets were submitted and both were reported, first the one submitted
\* last, after its deadline elapsed
C2_Witness ==
    /\ Len(tasks) = 2
    /\ \A t \in 1..2 : Reported(t)
    /\ completed = <<2, 1>>
    /\ Events[1].msg.kind = "result"
    /\ Events[1].msg.label = "Timeout"

----------------------------------------------------------------------------
(* C3 *)

\* C3: completion is signalled only when no submitted task is in flight or
\* completed but unreported: every submitted task has been joined and has its
\* event on the terminal.
C3_CompletionOnlyAfterAllReported ==
    CompletionSignalled
        => \A t \in 1..Len(tasks) :
              /\ tasks[t].state = "joined"
              /\ Reported(t)

\* completion was signalled for a run of two targets, both of them reported
C3_Witness ==
    /\ CompletionSignalled
    /\ Len(tasks) = 2
    /\ Len(Events) = 2
    /\ pc = "done"

----------------------------------------------------------------------------
(* C4 *)

\* C4: the events are printed in the order in which the tasks completed, and
\* during collection a completed, unreported task can be reported at once,
\* whatever the other tasks are doing.
C4_StreamingInCompletionOrder ==
    /\ Len(EventTasks) <= Len(completed)
    /\ \A i \in 1..Len(EventTasks) : EventTasks[i] = completed[i]
    /\ (pc = "collect" /\ Len(completed) > Len(EventTasks)) => ENABLED JoinNext

\* the second task submitted has been reported before the first, which is
\* still in flight
C4_Witness ==
    /\ Len(tasks) >= 2
    /\ Len(Events) >= 1
    /\ Events[1].msg.task = 2
    /\ InFlight(1)

----------------------------------------------------------------------------
(* C5 *)

\* the classification the specification gives for an attempt's outcome
ExpectedStatus(result) ==
    CASE result = Elapsed -> "Timeout"
      [] result = Connected -> "Open"
      [] result = "ConnectionRefused" -> "Refused"
      [] result = "HostUnreachable" -> "Unreachable"
      [] result = "NetworkUnreachable" -> "Unreachable"
      [] OTHER -> "Timeout"

\* C5: the ScanResult a task returns carries the endpoint the task was given
\* and a status of the closed set, which is Timeout for an elapsed deadline,
\* Open for a connection, Refused for ConnectionRefused, Unreachable for
\* HostUnreachable and NetworkUnreachable, and Timeout for any other error.
C5_ClassificationIsTotal ==
    \A t \in 1..Len(tasks) :
        tasks[t].state = "finished"
            => /\ tasks[t].result \in AttemptResults
               /\ tasks[t].output[1].ip = tasks[t].target
               /\ tasks[t].output[1].status \in ConnectionStatus
               /\ tasks[t].output[1].status = ExpectedStatus(tasks[t].result)

\* three tasks have returned: one after NetworkUnreachable, one after an error
\* kind without an arm of its own, one after the deadline
C5_Witness ==
    /\ Len(tasks) = 3
    /\ tasks[1].state = "finished" /\ tasks[1].result = "NetworkUnreachable"
    /\ tasks[2].state = "finished" /\ tasks[2].result = "PermissionDenied"
    /\ tasks[3].state = "finished" /\ tasks[3].result = Elapsed

----------------------------------------------------------------------------
(* C6 *)

\* C6: when the process has exited with IMPOSSIBLE_CIDR or with
\* SOCKET_ADDRESS_FAILED_TO_SET, no task has been spawned.
C6_FatalErrorsBeforeProbing ==
    (exit_code = Some(IMPOSSIBLE_CIDR)
        \/ exit_code = Some(SOCKET_ADDRESS_FAILED_TO_SET))
        => tasks = <<>>

\* the run was aborted for an impossible CIDR after a port list of two ports
\* had been built
C6_Witness ==
    /\ exit_code = Some(IMPOSSIBLE_CIDR)
    /\ Len(port_list) = 2
    /\ tasks = <<>>

----------------------------------------------------------------------------
(* C7 *)

FailureEvents == SelectSeq(Events, LAMBDA l : l.msg.kind = "failure")

\* C7: the step that reports a task failure leaves main in the collection loop
\* and the process running, and changes no other task; and a run in which a
\* failure was reported never exits with an error code.
C7_FailuresAreIsolated ==
    /\ [][Len(FailureEvents') > Len(FailureEvents)
            => /\ pc' = "collect"
               /\ exit_code' = Nothing
               /\ Len(tasks') = Len(tasks)
               /\ \A u \in 1..Len(tasks) :
                     u # Head(notified) => tasks'[u] = tasks[u]
               /\ notified' = Tail(notified)]_vars
    /\ [](FailureEvents # <<>> => exit_code \in {Nothing, Some(0)})

\* the first task failed and was reported first; the two others were reported
\* after it with their own results, and the run completed
C7_Witness ==
    /\ CompletionSignalled
    /\ Len(Events) = 3
    /\ Events[1].msg.kind = "failure"
    /\ Events[1].msg.task = 1
    /\ Events[2].msg.kind = "result"
    /\ Events[2].msg.label = "Open"
    /\ Events[3].msg.kind = "result"
    /\ Events[3].msg.label = "Refused"

----------------------------------------------------------------------------
(* C8 *)

\* C8: the event printed for a classified probe carries the endpoint of its
\* target and the status that the probe returned.
C8_EventCarriesReturnedStatus ==
    [][(pc = "collect" /\ Len(Events') > Len(Events)
            /\ tasks[Head(notified)].state = "finished")
        => LET e == Events'[Len(Events')].msg
               scan_result == tasks[Head(notified)].output[1]
           IN  /\ e.kind = "result"
               /\ e.ip = scan_result.ip
               /\ e.label = scan_result.status]_vars

----------------------------------------------------------------------------
(* C9 *)

\* the numeric value of the last three octets of an address
Low24(addr) == (addr[2] * 256 + addr[3]) * 256 + addr[4]

\* the iterator of the block has been created and is exhausted
Expanded == network # Nothing /\ iter = Nothing /\ yielded # <<>>

\* C9: the addresses yielded for a block of prefix length p start at the
\* block's first address and go up by one each; once the iterator is
\* exhausted there are 2^(32-p) of them and the last has all host bits set;
\* for p = 32 the single address yielded is the base address.
C9_ExpansionCoversTheBlock ==
    network # Nothing =>
        LET first == network[1].first
            p == network[1].len
        IN  /\ p \in 0..AddrBits
            /\ HostPartZero(first, p)
            /\ \A k \in 1..Len(yielded) :
                  /\ yielded[k][1] = first[1]
                  /\ Low24(yielded[k]) = Low24(first) + (k - 1)
            /\ Len(yielded) <= Pow2(AddrBits - p)
            /\ Expanded
                  => /\ Len(yielded) = Pow2(AddrBits - p)
                     /\ HostPartOnes(yielded[Len(yielded)], p)
            /\ (Expanded /\ p = AddrBits) => yielded = <<first>>

\* a block of 512 addresses has been expanded, across the carry from
\* 10.0.0.255 to 10.0.1.0
C9_Witness ==
    /\ Expanded
    /\ network[1].len = 23
    /\ Len(yielded) = 512
    /\ yielded[256] = <<10, 0, 0, 255>>
    /\ yielded[257] = <<10, 0, 1, 0>>
    /\ yielded[512] = <<10, 0, 1, 255>>

----------------------------------------------------------------------------
(* C10 *)

\* the k-th target of the address-major, port-minor product of A and P
ProductAt(A, P, k) ==
    [addr |-> A[((k - 1) \div Len(P)) + 1],
     port |-> P[((k - 1) % Len(P)) + 1]]

\* C10: the targets submitted so far are the first targets of the
\* address-major, port-minor product of the addresses yielded and the port
\* list, and once the loop has ended there are |A| x |P| of them.
C10_TargetsAreTheProduct ==
    /\ \A k \in 1..Len(tasks) :
          Targets[k] = ProductAt(yielded, port_list, k)
    /\ pc = "for_ip" => Len(tasks) = Len(yielded) * Len(port_list)
    /\ pc = "collect" => Len(tasks) = Len(yielded) * Len(port_list)

\* four addresses and the port list 80, 80 have given eight targets, each
\* address twice in a row
C10_Witness ==
    /\ pc = "collect"
    /\ Len(yielded) = 4
    /\ port_list = <<80, 80>>
    /\ Len(tasks) = 8
    /\ Targets[3] = Targets[4]
    /\ Targets[2] # Targets[3]

----------------------------------------------------------------------------
(* C11 *)

\* build_port_list has returned to main
PortListBuilt == pc \in {"build_net", "for_ip", "for_port", "collect", "done"}

\* C11: once build_port_list has returned for a port specification that
\* matched the port pattern, the port list holds at least one port.
C11_PortListIsNonEmpty == PortListBuilt => port_list # <<>>

----------------------------------------------------------------------------
(* C12 *)

\* how many times task t has resolved its await
Resolutions(t) == Len(SelectSeq(completed, LAMBDA u : u = t))

----------------------------------------------------------------------------
(* C13 *)

\* the connection attempts made so far: one per call of check_target, that is
\* one per task whose await has started
Attempts == [t \in DOMAIN tasks |-> tasks[t].target]

\* C13: no target is retried or submitted again. A step adds an attempt only
\* in the spawn loop, one attempt for the loop's current address and port;
\* no attempt is ever dropped or replaced, the collection loop adds none
\* (whatever the result it has just received, a Timeout included), and when
\* the collection starts there is one attempt per pair of a yielded address
\* and a position of the port list.
C13_OneAttemptPerTarget ==
    [][/\ \A t \in DOMAIN Attempts :
             t \in DOMAIN Attempts' /\ Attempts'[t] = Attempts[t]
       /\ Len(Attempts') # Len(Attempts) =>
             /\ pc = "for_port"
             /\ Attempts' = Append(Attempts,
                                   [addr |-> ip[1],
                                    port |-> port_list[port_idx]])
       /\ pc' \in {"collect", "done"} =>
             Len(Attempts') = Len(yielded') * Len(port_list')]_vars

\* the scan is over, a probe timed out and was reported, and there are as
\* many attempts as targets
C13_Witness ==
    /\ pc = "done"
    /\ Len(tasks) = 2
    /\ \E i \in DOMAIN terminal :
          /\ terminal[i].msg.kind = "result"
          /\ terminal[i].msg.label = "Timeout"
          /\ terminal[i].msg.task = 1
    /\ Resolutions(1) = 1

----------------------------------------------------------------------------
(* C14 *)

\* what the claim says one element contributes: its port for a single port,
\* start, start + 1, .., end - 1 for "start-end", nothing when start >= end
Contribution(e) ==
    IF Len(e) = 1 THEN <<e[1]>>
    ELSE IF e[1] >= e[2] THEN <<>>
    ELSE [i \in 1..(e[2] - e[1]) |-> e[1] + (i - 1)]

\* the contributions of the first k elements, one after the other
RECURSIVE Concatenated(_, _)
Concatenated(elems, k) ==
    IF k = 0 THEN <<>>
    ELSE Concatenated(elems, k - 1) \o Contribution(elems[k])

\* C14: when build_port_list returns for a specification whose elements are
\* single ports and "start-end" ranges, the port list is the contributions of
\* the elements in the order of the specification, neither sorted nor
\* deduplicated: a single port gives that port, "start-end" gives start up to
\* end - 1 and nothing when start >= end.
C14_PortListIsTheConcatenation ==
    [][(/\ pc = "build_ports"
        /\ pc' = "build_net"
        /\ \A k \in DOMAIN port_input.elems : Len(port_input.elems[k]) <= 2)
       => port_list' = Concatenated(port_input.elems,
                                    Len(port_input.elems))]_vars

\* "443,8-10,7" has given 443, 8, 9, 7: out of order, and without port 10
C14_Witness ==
    /\ pc = "build_net"
    /\ port_list = <<443, 8, 9, 7>>

----------------------------------------------------------------------------
(* C16 *)

\* every target of the scan has been submitted: the task list holds one task
\* per address of the block and position of the port list
AllTargetsSubmitted ==
    /\ network # Nothing
    /\ Len(tasks) = HostSize(network[1].len) * Len(port_list)

\* main has taken a completion from the set
CollectionStarted ==
    \/ Events # <<>>
    \/ \E t \in DOMAIN tasks : tasks[t].state = "joined"

\* C16: main submits every target before it collects the first completion: no
\* event is emitted, and no completion is taken from the set, while a target
\* remains unsubmitted, even when probes submitted earlier have completed.
C16_SubmissionPrecedesCollection ==
    /\ CollectionStarted => AllTargetsSubmitted
    /\ pc = "collect" => AllTargetsSubmitted

\* a probe has completed while main is still in the spawn loop with targets
\* left to submit, and nothing has been emitted for it
C16_Witness ==
    /\ pc \in {"for_ip", "for_port"}
    /\ ~AllTargetsSubmitted
    /\ completed # <<>>
    /\ notified # <<>>
    /\ Events = <<>>

----------------------------------------------------------------------------
(* C17 *)

\* the call being followed is one of error_handler
HandlerEntered == call_stack # <<>> /\ call_stack[1].fn = "error_handler"

\* the calls of error_handler on the stack
HandlerFrames == SelectSeq(call_stack, LAMBDA f : f.fn = "error_handler")

\* the exit code the claim gives for a call error_handler(code, _, name)
ClaimedExit(code, name) ==
    IF code \in DefinedCodes /\ ~(code = INVALID_VARIABLE /\ name = None)
    THEN code
    ELSE IF code = INVALID_VARIABLE THEN 9998
    ELSE 9999

\* C17: a call of error_handler, for every code and every optional variable
\* name, never returns and ends the process; it calls itself at most once and
\* is never called back from print_to_terminal, so the stack stays bounded.
\* The exit code is the code passed when it is a defined one (with a name
\* when it is INVALID_VARIABLE), 9998 for INVALID_VARIABLE without a name and
\* 9999 for a code that is not defined.
C17_HandlerAlwaysExits ==
    /\ [](HandlerEntered =>
             /\ Len(HandlerFrames) <= 2
             /\ Len(call_stack) <= 3
             /\ pc # "returned"
             /\ pc = "exited" =>
                   /\ exit_code = Some(ClaimedExit(call_stack[1].code[1],
                                                   call_stack[1].name))
                   /\ exit_code = error_handler(call_stack[1].code[1],
                                                call_stack[1].name).exit
                   /\ terminal = error_handler(call_stack[1].code[1],
                                               call_stack[1].name).lines)
    /\ [][HandlerEntered =>
             \A i \in DOMAIN call_stack :
                call_stack[i].fn = "error_handler" =>
                   i \in DOMAIN call_stack' /\ call_stack'[i] = call_stack[i]
      ]_vars
    /\ (HandlerEntered ~> pc = "exited")

\* error_handler was called with a code that is not defined, called itself
\* once and the process has exited with 9999
C17_Witness ==
    /\ pc = "exited"
    /\ call_stack[1].fn = "error_handler"
    /\ call_stack[1].code[1] \notin DefinedCodes
    /\ Len(HandlerFrames) = 2
    /\ exit_code = Some(NO_ERROR_CODE_GIVEN)

====
